---- MODULE Spec2Model ----
(***************************************************************************)
(* In-place decimation-in-frequency DFT over a 31-bit Montgomery field     *)
(* (monty-31/src/dft/forward.rs), and the round structure of the Poseidon  *)
(* permutation (poseidon/src/lib.rs).                                      *)
(*                                                                         *)
(* Slices are functions on 0 .. len-1, so indices read as in the source.   *)
(* A field element is its Montgomery residue `value`, a number in          *)
(* 0 .. PRIME-1.  The machine word of the source (u32, with u64 products)  *)
(* is scaled to MONTY_BITS bits (products in 2*MONTY_BITS bits) so that   *)
(* every intermediate is a number TLC can hold; PRIME < 2^(MONTY_BITS-1)   *)
(* as in the source, where PRIME < 2^31.                                   *)
(***************************************************************************)
EXTENDS Integers, Sequences, FiniteSets, Bags, TLC

----------------------------------------------------------------------------
(* Slices *)

Len0(a) == Cardinality(DOMAIN a)

\* the same function, with its elements evaluated once and stored
Arr(f) == f @@ <<>>

Slice(a, lo, hi) == Arr([i \in 0 .. (hi - lo - 1) |-> a[lo + i]])

Cat(a, b) ==
    LET la == Len0(a)
    IN  Arr([i \in 0 .. (la + Len0(b) - 1) |-> IF i < la THEN a[i] ELSE b[i - la]])

----------------------------------------------------------------------------
(* FieldParameters / TwoAdicData of the field the transform is used with *)

PRIME == 12289

MONTY_BITS == 15

TWO_ADICITY == 12

\* a generator of the subgroup of order 2^TWO_ADICITY, as a plain residue
TWO_ADIC_GENERATOR == 1331

MONTY_R == 2 ^ MONTY_BITS

MONTY_MASK == MONTY_R - 1

\* PRIME^-1 mod 2^MONTY_BITS
MONTY_MU == CHOOSE m \in 0 .. MONTY_MASK : (m * PRIME) % MONTY_R = 1

\* log2_strict_usize: the exponent of a power of two, -1 (a panic) otherwise
RECURSIVE log2_from(_, _)
log2_from(n, k) ==
    IF n = 1 THEN k
    ELSE IF n < 1 \/ n % 2 = 1 THEN -1
    ELSE log2_from(n \div 2, k + 1)

log2_strict_usize(n) == log2_from(n, 0)

IsPow2(n) == log2_strict_usize(n) >= 0

----------------------------------------------------------------------------
(* MontyField31 arithmetic *)

\* Montgomery reduction of a double-width x < 2^MONTY_BITS * PRIME
monty_reduce(x) ==
    LET t       == ((x % MONTY_R) * MONTY_MU) % MONTY_R
        u       == t * PRIME
        x_sub_u == (x - u) % (MONTY_R * MONTY_R)
        hi      == (x_sub_u \div MONTY_R) % MONTY_R
        corr    == IF x < u THEN PRIME ELSE 0
    IN  (hi + corr) % MONTY_R

to_monty(x) == (x * MONTY_R) % PRIME

one == to_monty(1)

Add(x, y) == LET s == x + y IN IF s >= PRIME THEN s - PRIME ELSE s

Sub(x, y) == IF x >= y THEN x - y ELSE PRIME + x - y

Mul(x, y) == monty_reduce(x * y)

RECURSIVE exp_power_of_2(_, _)
exp_power_of_2(x, k) == IF k = 0 THEN x ELSE exp_power_of_2(Mul(x, x), k - 1)

two_adic_generator(bits) ==
    exp_power_of_2(to_monty(TWO_ADIC_GENERATOR), TWO_ADICITY - bits)

\* gen.powers().take(k): [1, g, g^2, ..., g^(k-1)].  The iterator multiplies
\* the running power by g; the list is built here by doubling (the second
\* half is the first half times g^len), which yields the same residues
\* because Mul is associative, and keeps the evaluation depth logarithmic.
RECURSIVE PowersFrom(_, _, _)
PowersFrom(g, k, acc) ==
    LET m == Len0(acc) IN
    IF m >= k THEN Slice(acc, 0, k)
    ELSE LET gm == Mul(acc[m - 1], g)
         IN  PowersFrom(g, k, Arr([i \in 0 .. (2 * m - 1) |->
                                      IF i < m THEN acc[i] ELSE Mul(acc[i - m], gm)]))

powers_take(g, k) == IF k <= 0 THEN <<>> ELSE PowersFrom(g, k, [i \in 0 .. 0 |-> one])

\* nth_roots.iter().step_by(step)
step_by(s, step) ==
    Arr([k \in 0 .. (((Len0(s) + step - 1) \div step) - 1) |-> s[k * step]])

----------------------------------------------------------------------------
(* roots_of_unity_table *)

\* (one level too many: 0 .. lg_n - 1)
roots_of_unity_table_extra_level(n) ==
    LET lg_n      == log2_strict_usize(n)
        gen       == two_adic_generator(lg_n)
        half_n    == 2 ^ (lg_n - 1)
        nth_roots == powers_take(gen, half_n)
    IN  Arr([i \in 0 .. (lg_n - 1) |-> step_by(nth_roots, 2 ^ i)])

\* (all n roots kept, the negatives included)
roots_of_unity_table_all_roots(n) ==
    LET lg_n      == log2_strict_usize(n)
        gen       == two_adic_generator(lg_n)
        nth_roots == powers_take(gen, n)
    IN  Arr([i \in 0 .. (lg_n - 2) |-> step_by(nth_roots, 2 ^ i)])

roots_of_unity_table(n) ==
    LET lg_n      == log2_strict_usize(n)
        gen       == two_adic_generator(lg_n)
        half_n    == 2 ^ (lg_n - 1)
        nth_roots == powers_take(gen, half_n)
    IN  Arr([i \in 0 .. (lg_n - 2) |-> step_by(nth_roots, 2 ^ i)])

----------------------------------------------------------------------------
(* Outcome of a call on a buffer: ok = it returned (FALSE: it panicked),    *)
(* a = the buffer as the call left it, tr = the functions entered, in      *)
(* order, each with the length of the slice it was given, and between     *)
(* them the butterfly stages the call completed.                           *)

Res(ok, a, tr) == [ok |-> ok, a |-> Arr(a), tr |-> tr]

\* a completed butterfly stage in the trace: the positions off .. off+len-1
\* of the call's slice, each paired with the position block/2 away inside
\* its block of `block` consecutive positions
stage(off, len, block) == << <<"stage", off, len, block>> >>

\* the trace of a call on the sub-slice that starts at `by`
shifted(tr, by) ==
    [j \in DOMAIN tr |->
        IF Len(tr[j]) = 4 THEN <<tr[j][1], tr[j][2] + by, tr[j][3], tr[j][4]>>
        ELSE tr[j]]

----------------------------------------------------------------------------
(* Field::Packing: lanes of `w` consecutive elements *)

\* pack_slice / pack_slice_mut: the slice seen as lanes; its length must be
\* a multiple of the lane width
CanPack(s, w) == Len0(s) % w = 0

pack_slice(s, w) ==
    Arr([k \in 0 .. ((Len0(s) \div w) - 1) |-> Arr([l \in 0 .. (w - 1) |-> s[k * w + l]])])

unpack_slice(p, w) ==
    Arr([i \in 0 .. (Len0(p) * w - 1) |-> p[i \div w][i % w]])

PAdd(x, y) == Arr([l \in DOMAIN x |-> Add(x[l], y[l])])

PSub(x, y) == Arr([l \in DOMAIN x |-> Sub(x[l], y[l])])

PMul(x, y) == Arr([l \in DOMAIN x |-> Mul(x[l], y[l])])

Min(p, q) == IF p <= q THEN p ELSE q

Range(f) == {f[k] : k \in DOMAIN f}

----------------------------------------------------------------------------
(* The butterfly *)

\* (a wrapping x.value - y.value, PRIME left out)
butterfly_t_no_prime(x, y) == (x - y) % MONTY_R

\* (MP::PRIME added twice)
prime_plus_diff_two_primes(P, x, y) ==
    (((((P + P) % MONTY_R) + x) % MONTY_R) - y) % MONTY_R

\* MP::PRIME + x.value - y.value, left to right in the machine word, for the
\* field of prime P
prime_plus_diff(P, x, y) == (((P + x) % MONTY_R) - y) % MONTY_R

\* t as u64 * w.value as u64, in the double word
times_root(t, w) == (t * w) % (MONTY_R * MONTY_R)

\* t = MP::PRIME + x.value - y.value, in the machine word
butterfly_t(x, y) == prime_plus_diff(PRIME, x, y)

\* (the sum left unreduced)
forward_butterfly_plain_sum(x, y, w) ==
    <<x + y, monty_reduce(times_root(butterfly_t(x, y), w))>>

forward_butterfly(x, y, w) ==
    <<Add(x, y), monty_reduce(times_root(butterfly_t(x, y), w))>>

----------------------------------------------------------------------------
(* Stage 0 and stage 1 of the breadth-first path, packed *)

\* the lanes k < cnt of (lo, hi) combined with roots; past cnt untouched
PackedLo(lo, hi, cnt) ==
    Arr([k \in DOMAIN lo |-> IF k < cnt THEN PAdd(lo[k], hi[k]) ELSE lo[k]])

PackedHi(lo, hi, pr, cnt) ==
    Arr([k \in DOMAIN hi |-> IF k < cnt THEN PMul(PSub(lo[k], hi[k]), pr[k]) ELSE hi[k]])

forward_small_s0(a, roots, w) ==
    LET n == Len0(a)
        m == n \div 2
    IN  IF ~CanPack(a, w) \/ ~CanPack(roots, w) \/ m % w # 0
        THEN Res(FALSE, a, <<>>)
        ELSE
        LET packed_vec   == pack_slice(a, w)
            packed_roots == pack_slice(roots, w)
            m_elts       == m \div w
            a0           == Slice(packed_vec, 0, m_elts)
            a1           == Slice(packed_vec, m_elts, Len0(packed_vec))
            \* packed_roots[k] past its end panics inside the loop
            cnt          == Min(m_elts, Len0(packed_roots))
        IN  Res(cnt = m_elts,
                unpack_slice(Cat(PackedLo(a0, a1, cnt),
                                 PackedHi(a0, a1, packed_roots, cnt)), w),
                <<>>)

\* (the second half's differences left without their twiddle)
forward_small_s1_v_unscaled(a, roots, w) ==
    LET n  == Len0(a)
        m  == n \div 4
        u  == Slice(a, 0, n \div 2)
        v  == Slice(a, n \div 2, n)
        pu0 == pack_slice(Slice(u, 0, m), w)
        pu1 == pack_slice(Slice(u, m, Len0(u)), w)
        pv0 == pack_slice(Slice(v, 0, m), w)
        pv1 == pack_slice(Slice(v, m, Len0(v)), w)
        packed_roots == pack_slice(roots, w)
        cnt == m \div w
    IN  Res(TRUE,
            Cat(Cat(unpack_slice(PackedLo(pu0, pu1, cnt), w),
                    unpack_slice(PackedHi(pu0, pu1, packed_roots, cnt), w)),
                Cat(unpack_slice(PackedLo(pv0, pv1, cnt), w),
                    unpack_slice([k \in DOMAIN pv1 |-> PSub(pv0[k], pv1[k])], w))),
            <<>>)

forward_small_s1(a, roots, w) ==
    LET n  == Len0(a)
        u  == Slice(a, 0, n \div 2)
        v  == Slice(a, n \div 2, n)
        u0 == Slice(u, 0, n \div 4)
        u1 == Slice(u, n \div 4, Len0(u))
        v0 == Slice(v, 0, n \div 4)
        v1 == Slice(v, n \div 4, Len0(v))
        m  == n \div 4
    IN  IF m % w # 0 \/ ~CanPack(u0, w) \/ ~CanPack(u1, w) \/ ~CanPack(v0, w)
           \/ ~CanPack(v1, w) \/ ~CanPack(roots, w)
        THEN Res(FALSE, a, <<>>)
        ELSE
        LET m_elts       == m \div w
            pu0          == pack_slice(u0, w)
            pu1          == pack_slice(u1, w)
            pv0          == pack_slice(v0, w)
            pv1          == pack_slice(v1, w)
            packed_roots == pack_slice(roots, w)
            cnt          == Min(m_elts, Len0(packed_roots))
        IN  Res(cnt = m_elts,
                Cat(Cat(unpack_slice(PackedLo(pu0, pu1, cnt), w),
                        unpack_slice(PackedHi(pu0, pu1, packed_roots, cnt), w)),
                    Cat(unpack_slice(PackedLo(pv0, pv1, cnt), w),
                        unpack_slice(PackedHi(pv0, pv1, packed_roots, cnt), w))),
                <<>>)

----------------------------------------------------------------------------
(* The scalar reference stages *)

_forward_small_s0(a, roots) ==
    LET n == Len0(a)
        m == n \div 2
        a0 == Slice(a, 0, m)
        a1 == Slice(a, m, n)
    IN  Cat([k \in 0 .. (m - 1) |-> Add(a0[k], a1[k])],
            [k \in 0 .. (n - m - 1) |->
                IF k < m THEN monty_reduce(times_root(butterfly_t(a0[k], a1[k]), roots[k]))
                ELSE a1[k]])

_forward_small_s1(a, roots) ==
    LET n  == Len0(a)
        a0 == Slice(a, 0, n \div 2)
        a1 == Slice(a, n \div 2, n)
        m  == n \div 4
        Half(h) ==
            Arr([p \in DOMAIN h |->
                    IF p < m THEN Add(h[p], h[p + m])
                    ELSE IF p < 2 * m
                         THEN monty_reduce(times_root(butterfly_t(h[p - m], h[p]), roots[p - m]))
                         ELSE h[p]])
    IN  Cat(Half(a0), Half(a1))

----------------------------------------------------------------------------
(* forward_small: the breadth-first path *)

\* the scalar loops of one stage: blocks i < 2^s at offset i << (lg_m + 1),
\* pairs (offset + k, offset + k + m) for k < m
scalar_stage(a, roots, lg_m, s) ==
    LET m == 2 ^ lg_m IN
    Arr([p \in DOMAIN a |->
            LET i == p \div (2 * m)
                k == p % (2 * m)
            IN  IF i >= 2 ^ s THEN a[p]
                ELSE IF k < m THEN Add(a[p], a[p + m])
                ELSE monty_reduce(times_root(butterfly_t(a[p - m], a[p]), roots[k - m]))])

\* (the iteration with roots.len() compared to m after the stage has run)
small_stage_late_assert(a, root_table, w, lg_n, lg_m) ==
    LET n == Len0(a)
        s == lg_n - lg_m - 1
        m == 2 ^ lg_m
    IN  IF lg_m # 0 /\ s >= Len0(root_table) THEN Res(FALSE, a, <<>>)
        ELSE
        LET roots == IF lg_m # 0 THEN root_table[s] ELSE [z \in 0 .. 0 |-> one]
        IN  IF Len0(roots) < m THEN Res(FALSE, a, <<>>)
            ELSE Res(Len0(roots) = m, scalar_stage(a, roots, lg_m, s), <<>>)

\* one iteration of the loop `for lg_m in (0..lg_n).rev()`
small_stage(a, root_table, w, lg_n, lg_m) ==
    LET n == Len0(a)
        s == lg_n - lg_m - 1
        m == 2 ^ lg_m
    IN  \* &root_table[s] past the end of the table panics
        IF lg_m # 0 /\ s >= Len0(root_table) THEN Res(FALSE, a, <<>>)
        ELSE
        LET roots == IF lg_m # 0 THEN root_table[s] ELSE [z \in 0 .. 0 |-> one]
        IN  \* assert_eq!(roots.len(), m)
            IF Len0(roots) # m THEN Res(FALSE, a, <<>>)
            ELSE
            LET r == IF s = 0 /\ w <= n \div 2 THEN forward_small_s0(a, roots, w)
                     ELSE IF s = 1 /\ w <= n \div 4 THEN forward_small_s1(a, roots, w)
                     ELSE Res(TRUE, scalar_stage(a, roots, lg_m, s), <<>>)
            IN  Res(r.ok, r.a, IF r.ok THEN stage(0, n, 2 * m) ELSE <<>>)

\* (the loop left before its last iteration, lg_m = 0)
RECURSIVE small_stages_stops_at_one(_, _, _, _, _)
small_stages_stops_at_one(a, root_table, w, lg_n, lg_m) ==
    IF lg_m < 1 THEN Res(TRUE, a, <<>>)
    ELSE LET r == small_stage(a, root_table, w, lg_n, lg_m)
         IN  IF ~r.ok THEN r
             ELSE LET q == small_stages_stops_at_one(r.a, root_table, w, lg_n, lg_m - 1)
                  IN  Res(q.ok, q.a, r.tr \o q.tr)

\* the iterations lg_m, lg_m - 1, ..., 0, stopping at the first panic
RECURSIVE small_stages(_, _, _, _, _)
small_stages(a, root_table, w, lg_n, lg_m) ==
    IF lg_m < 0 THEN Res(TRUE, a, <<>>)
    ELSE LET r == small_stage(a, root_table, w, lg_n, lg_m)
         IN  IF ~r.ok THEN r
             ELSE LET q == small_stages(r.a, root_table, w, lg_n, lg_m - 1)
                  IN  Res(q.ok, q.a, r.tr \o q.tr)

forward_small(a, root_table, w) ==
    LET n    == Len0(a)
        lg_n == log2_strict_usize(n)
        tr   == << <<"forward_small", n>> >>
    IN  IF lg_n < 0 THEN Res(FALSE, a, tr)
        ELSE LET r == small_stages(a, root_table, w, lg_n, lg_n - 1)
             IN  Res(r.ok, r.a, tr \o r.tr)

----------------------------------------------------------------------------
(* forward_pass: one stage on a buffer split in half *)

\* (the scalar loop zipped with roots instead of roots[1..])
forward_pass_unshifted_roots(a, roots, w) ==
    LET n      == Len0(a)
        half_n == n \div 2
        tr     == << <<"forward_pass", n>> >>
        top    == Slice(a, 0, half_n)
        tail   == Slice(a, half_n, n)
    IN  IF Len0(roots) # half_n \/ half_n = 0 THEN Res(FALSE, a, tr)
        ELSE IF half_n >= w
        THEN IF ~CanPack(top, w) \/ ~CanPack(tail, w) \/ ~CanPack(roots, w)
             THEN Res(FALSE, a, tr)
             ELSE
             LET top_packed   == pack_slice(top, w)
                 tail_packed  == pack_slice(tail, w)
                 roots_packed == pack_slice(roots, w)
                 cnt == Min(Len0(top_packed), Min(Len0(tail_packed), Len0(roots_packed)))
             IN  Res(TRUE,
                     Cat(unpack_slice(PackedLo(top_packed, tail_packed, cnt), w),
                         unpack_slice(PackedHi(top_packed, tail_packed, roots_packed, cnt), w)),
                     tr)
        ELSE Res(TRUE,
                 Cat([k \in 0 .. (half_n - 1) |-> Add(top[k], tail[k])],
                     [k \in 0 .. (n - half_n - 1) |->
                        IF k = 0 THEN Sub(top[0], tail[0])
                        ELSE IF k < half_n
                             THEN monty_reduce(times_root(butterfly_t(top[k], tail[k]), roots[k - 1]))
                             ELSE tail[k]]),
                 tr)

forward_pass(a, roots, w) ==
    LET n      == Len0(a)
        half_n == n \div 2
        tr     == << <<"forward_pass", n>> >>
        top    == Slice(a, 0, half_n)
        tail   == Slice(a, half_n, n)
    IN  IF Len0(roots) # half_n THEN Res(FALSE, a, tr)
        ELSE IF half_n >= w
        THEN IF ~CanPack(top, w) \/ ~CanPack(tail, w) \/ ~CanPack(roots, w)
             THEN Res(FALSE, a, tr)
             ELSE
             LET top_packed   == pack_slice(top, w)
                 tail_packed  == pack_slice(tail, w)
                 roots_packed == pack_slice(roots, w)
                 \* izip! stops with the shortest of the three
                 cnt == Min(Len0(top_packed), Min(Len0(tail_packed), Len0(roots_packed)))
             IN  Res(TRUE,
                     Cat(unpack_slice(PackedLo(top_packed, tail_packed, cnt), w),
                         unpack_slice(PackedHi(top_packed, tail_packed, roots_packed, cnt), w)),
                     tr \o stage(0, n, n))
        ELSE \* top[0] of an empty half panics
             IF half_n = 0 THEN Res(FALSE, a, tr)
             ELSE
             Res(TRUE,
                 Cat([k \in 0 .. (half_n - 1) |->
                        IF k = 0 THEN Add(top[0], tail[0])
                        ELSE forward_butterfly(top[k], tail[k], roots[k])[1]],
                     [k \in 0 .. (n - half_n - 1) |->
                        IF k = 0 THEN Sub(top[0], tail[0])
                        ELSE IF k < half_n
                             THEN forward_butterfly(top[k], tail[k], roots[k])[2]
                             ELSE tail[k]]),
                 tr \o stage(0, n, n))

----------------------------------------------------------------------------
(* The unrolled kernels *)

\* TwoAdicData::ROOTS_8, ROOTS_16: the first halves of the 8th and 16th roots
ROOTS_8 == powers_take(two_adic_generator(3), 4)

ROOTS_16 == powers_take(two_adic_generator(4), 8)

\* after a stage that left r: the kernel K on the first half, then on the
\* second half, each in place; a panic in the first leaves the second as is
on_halves(r, K(_)) ==
    IF ~r.ok THEN r
    ELSE
    LET n  == Len0(r.a)
        a0 == Slice(r.a, 0, n \div 2)
        a1 == Slice(r.a, n \div 2, n)
        r0 == K(a0)
    IN  IF ~r0.ok THEN Res(FALSE, Cat(r0.a, a1), r.tr \o r0.tr)
        ELSE LET r1 == K(a1)
             IN  Res(r1.ok, Cat(r0.a, r1.a),
                     r.tr \o r0.tr \o shifted(r1.tr, n \div 2))

\* a kernel's own entry in the trace, before what it calls
entered(name, a, r) == Res(r.ok, r.a, << <<name, Len0(a)>> >> \o r.tr)

\* &root_table[0] and &root_table[1..] of an empty table panic
pass_level0(a, root_table, w) ==
    IF Len0(root_table) = 0 THEN Res(FALSE, a, <<>>)
    ELSE forward_pass(a, root_table[0], w)

drop_level0(root_table) == Slice(root_table, 1, Len0(root_table))

forward_2(a) ==
    entered("forward_2", a,
        IF Len0(a) # 2 THEN Res(FALSE, a, <<>>)
        ELSE Res(TRUE, [p \in 0 .. 1 |-> IF p = 0 THEN Add(a[0], a[1])
                                         ELSE Sub(a[0], a[1])], stage(0, 2, 2)))

\* (the four outputs in natural order)
forward_4_natural_order(a) ==
    LET t1 == butterfly_t(a[1], a[3])
        t3 == monty_reduce(times_root(t1, ROOTS_8[2]))
        t5 == Add(a[1], a[3])
        t4 == Add(a[0], a[2])
        t2 == Sub(a[0], a[2])
    IN  Res(Len0(a) = 4,
            [p \in 0 .. 3 |->
                CASE p = 0 -> Add(t4, t5)
                  [] p = 1 -> Add(t2, t3)
                  [] p = 2 -> Sub(t4, t5)
                  [] p = 3 -> Sub(t2, t3)],
            << <<"forward_4", Len0(a)>> >>)

forward_4(a) ==
    entered("forward_4", a,
        IF Len0(a) # 4 THEN Res(FALSE, a, <<>>)
        ELSE
        LET t1 == butterfly_t(a[1], a[3])
            t3 == monty_reduce(times_root(t1, ROOTS_8[2]))
            t5 == Add(a[1], a[3])
            t4 == Add(a[0], a[2])
            t2 == Sub(a[0], a[2])
        IN  Res(TRUE, [p \in 0 .. 3 |->
                         CASE p = 0 -> Add(t4, t5)
                           [] p = 1 -> Sub(t4, t5)
                           [] p = 2 -> Add(t2, t3)
                           [] p = 3 -> Sub(t2, t3)],
                 \* t1 .. t5 are the stage on (0,2), (1,3); the four
                 \* results are the stage on (0,1), (2,3)
                 stage(0, 4, 4) \o stage(0, 4, 2)))

forward_8(a, w) ==
    entered("forward_8", a,
        IF Len0(a) # 8 THEN Res(FALSE, a, <<>>)
        ELSE on_halves(forward_pass(a, ROOTS_8, w), forward_4))

forward_16(a, w) ==
    entered("forward_16", a,
        IF Len0(a) # 16 THEN Res(FALSE, a, <<>>)
        ELSE on_halves(forward_pass(a, ROOTS_16, w), LAMBDA h : forward_8(h, w)))

forward_32(a, root_table, w) ==
    entered("forward_32", a,
        IF Len0(a) # 32 THEN Res(FALSE, a, <<>>)
        ELSE on_halves(pass_level0(a, root_table, w), LAMBDA h : forward_16(h, w)))

forward_64(a, root_table, w) ==
    entered("forward_64", a,
        IF Len0(a) # 64 THEN Res(FALSE, a, <<>>)
        ELSE on_halves(pass_level0(a, root_table, w),
                       LAMBDA h : forward_32(h, drop_level0(root_table), w)))

forward_128(a, root_table, w) ==
    entered("forward_128", a,
        IF Len0(a) # 128 THEN Res(FALSE, a, <<>>)
        ELSE on_halves(pass_level0(a, root_table, w),
                       LAMBDA h : forward_64(h, drop_level0(root_table), w)))

forward_256(a, root_table, w) ==
    entered("forward_256", a,
        IF Len0(a) # 256 THEN Res(FALSE, a, <<>>)
        ELSE on_halves(pass_level0(a, root_table, w),
                       LAMBDA h : forward_128(h, drop_level0(root_table), w)))

----------------------------------------------------------------------------
(* forward_fft: the dispatcher *)

\* the largest length handed to forward_small
SMALL_MAX == 1024

\* the unrolled kernel for a length, as `match n` picks it
forward_n(a, root_table, w) ==
    LET len == Len0(a) IN
    CASE len = 256 -> forward_256(a, root_table, w)
      [] len = 128 -> forward_128(a, root_table, w)
      [] len = 64  -> forward_64(a, root_table, w)
      [] len = 32  -> forward_32(a, root_table, w)
      [] len = 16  -> forward_16(a, w)
      [] len = 8   -> forward_8(a, w)
      [] len = 4   -> forward_4(a)
      [] len = 2   -> forward_2(a)

\* the lengths of the levels of a table, first level first
level_lens(root_table) ==
    [i \in 1 .. Len0(root_table) |-> Len0(root_table[i - 1])] \o <<>>

\* forward_fft's entry in the trace, with the table it was given, before
\* what it calls
entered_fft(a, root_table, r) ==
    Res(r.ok, r.a, << <<"forward_fft", Len0(a), level_lens(root_table)>> >> \o r.tr)

\* (the match on n taken before the test for the breadth-first path)
RECURSIVE forward_fft_match_first(_, _, _)
forward_fft_match_first(a, root_table, w) ==
    LET n == Len0(a) IN
    entered_fft(a, root_table,
        IF n = 1 THEN Res(TRUE, a, <<>>)
        ELSE IF n \in {4, 8, 16, 32, 64, 128, 256} /\ n = 2 ^ (Len0(root_table) + 1)
        THEN forward_n(a, root_table, w)
        ELSE IF n > 2 /\ n <= SMALL_MAX THEN forward_small(a, root_table, w)
        ELSE IF n # 2 ^ (Len0(root_table) + 1) THEN Res(FALSE, a, <<>>)
        ELSE IF n = 2 THEN forward_2(a)
        ELSE on_halves(forward_pass(a, root_table[0], w),
                       LAMBDA h : forward_fft_match_first(h, drop_level0(root_table), w)))

RECURSIVE forward_fft(_, _, _)
forward_fft(a, root_table, w) ==
    LET n == Len0(a) IN
    entered_fft(a, root_table,
        IF n = 1 THEN Res(TRUE, a, <<>>)
        ELSE IF n > 2 /\ n <= SMALL_MAX THEN forward_small(a, root_table, w)
        ELSE IF n # 2 ^ (Len0(root_table) + 1) THEN Res(FALSE, a, <<>>)
        ELSE CASE n = 256 -> forward_256(a, root_table, w)
               [] n = 128 -> forward_128(a, root_table, w)
               [] n = 64  -> forward_64(a, root_table, w)
               [] n = 32  -> forward_32(a, root_table, w)
               [] n = 16  -> forward_16(a, w)
               [] n = 8   -> forward_8(a, w)
               [] n = 4   -> forward_4(a)
               [] n = 2   -> forward_2(a)
               [] OTHER   ->
                    on_halves(forward_pass(a, root_table[0], w),
                              LAMBDA h : forward_fft(h, drop_level0(root_table), w)))

----------------------------------------------------------------------------
(* The reference: the DFT by its definition, on plain residues *)

\* the residue a Montgomery value stands for, by the definition x * R^-1
R_INV == CHOOSE r \in 0 .. (PRIME - 1) : (r * (MONTY_R % PRIME)) % PRIME = 1

from_monty(v) == (v * R_INV) % PRIME

RECURSIVE ModExp(_, _)
ModExp(b, e) ==
    IF e = 0 THEN 1
    ELSE LET h == ModExp(b, e \div 2)
             q == (h * h) % PRIME
         IN  IF e % 2 = 1 THEN (q * b) % PRIME ELSE q

RECURSIVE bitrev_from(_, _, _)
bitrev_from(i, bits, acc) ==
    IF bits = 0 THEN acc
    ELSE bitrev_from(i \div 2, bits - 1, 2 * acc + (i % 2))

\* the index whose `bits` low bits are those of i, reversed
bitrev(i, bits) == bitrev_from(i, bits, 0)

\* the sum of the naturals f[j]: the size of the bag that holds f[j] + 1
\* copies of each j, less the one extra copy per j
SumOf(f) == BagCardinality([j \in DOMAIN f |-> f[j] + 1]) - Cardinality(DOMAIN f)

\* sum over j of a_j * g^(j * k); pa, pw are the sequences <<a_0, a_1, ...>>
\* and <<g^0, g^1, ...>> of plain residues, of length len
dft_at(pa, pw, len, k) ==
    SumOf([j \in 1 .. len |-> (pa[j] * pw[(((j - 1) * k) % len) + 1]) % PRIME]) % PRIME

\* the plain residues of the transform of the Montgomery buffer a, by the
\* definition, with g the plain residue of order len
dft_bitrev(a, len) ==
    LET lg == log2_strict_usize(len)
        g  == ModExp(TWO_ADIC_GENERATOR, 2 ^ (TWO_ADICITY - lg))
        pw == [e \in 1 .. len |-> ModExp(g, e - 1)] \o <<>>
        pa == [j \in 1 .. len |-> from_monty(a[j - 1])] \o <<>>
    IN  [i \in 0 .. (len - 1) |-> dft_at(pa, pw, len, bitrev(i, lg))]

----------------------------------------------------------------------------
(* roots_of_unity_table as called: what the call does for any n *)

\* Packing::WIDTH of the builds: scalar, NEON, AVX2, AVX-512
Widths == {1, 4, 8, 16}

\* `lg_n - 1` at lg_n = 0 underflows: a panic where overflow checks are on;
\* where they are off it wraps, half_n becomes 1 << (usize::MAX % 64), and
\* collecting that many powers cannot be allocated.  two_adic_generator
\* asserts bits <= TWO_ADICITY.  "built" is the only outcome with a table.
table_outcome(n, checks) ==
    LET lg_n == log2_strict_usize(n) IN
    IF lg_n < 0 THEN "panic_log2"
    ELSE IF lg_n > TWO_ADICITY THEN "panic_generator"
    ELSE IF lg_n = 0 THEN (IF checks THEN "panic_overflow" ELSE "abort_alloc")
    ELSE "built"

----------------------------------------------------------------------------
(* State *)

VARIABLES
    width,            \* Packing::WIDTH of the build
    overflow_checks,  \* whether the build checks integer overflow
    n,                \* the length the table is asked for
    tstatus,          \* "none", "supplied", the outcome of roots_of_unity_table(n),
                      \* or "operands": a_in and table hold x, y and w
    table,            \* the table (or, for a single stage, the roots) handed on
    a_in,             \* the buffer as the caller hands it over
    out,              \* function name |-> Res of its call on (a_in, table)
    prime,            \* MP::PRIME of the field the word arithmetic is done for
    poseidon,         \* the Poseidon instance: what Poseidon::new was given and did
    perm              \* the permute_mut call in progress on that instance

vars == <<width, overflow_checks, n, tstatus, table, a_in, out, prime, poseidon, perm>>

\* values of `poseidon` and `perm` where no instance is built and no call made
NoPoseidon == [status |-> "none"]

NoPermute == [pc |-> "idle"]

\* the transform's field is the one of PRIME, and Poseidon is not in use
FftOnly == prime = PRIME /\ poseidon = NoPoseidon /\ perm = NoPermute

Done(f) == f \in DOMAIN out

Record(f, r) == out' = out @@ (f :> r)

\* canonical sample buffers: residues spread over 0 .. PRIME-1, with PRIME-1
\* itself at every fifth place
Sample(len, seed) ==
    Arr([i \in 0 .. (len - 1) |->
            IF (i + seed) % 5 = 4 THEN PRIME - 1
            ELSE (seed * 4099 + i * i * 31 + i * (seed + 3) * 17 + 5) % PRIME])

----------------------------------------------------------------------------
(* Actions *)

BuildTable ==
    /\ tstatus = "none"
    /\ tstatus' = table_outcome(n, overflow_checks)
    /\ table' = IF tstatus' = "built" THEN roots_of_unity_table(n) ELSE <<>>
    /\ UNCHANGED <<width, overflow_checks, n, a_in, out, prime, poseidon, perm>>

CallForwardFft ==
    /\ tstatus \in {"built", "supplied"}
    /\ ~Done("forward_fft")
    /\ Record("forward_fft", forward_fft(a_in, table, width))
    /\ UNCHANGED <<width, overflow_checks, n, tstatus, table, a_in, prime, poseidon, perm>>

CallForwardSmall ==
    /\ tstatus \in {"built", "supplied"}
    /\ ~Done("forward_small")
    /\ Record("forward_small", forward_small(a_in, table, width))
    /\ UNCHANGED <<width, overflow_checks, n, tstatus, table, a_in, prime, poseidon, perm>>

CallKernel ==
    /\ tstatus \in {"built", "supplied"}
    /\ ~Done("forward_n")
    /\ Record("forward_n", forward_n(a_in, table, width))
    /\ UNCHANGED <<width, overflow_checks, n, tstatus, table, a_in, prime, poseidon, perm>>

\* the calls below take a list of roots; `table` holds that list

\* forward_butterfly(a_in[0], a_in[1], table[0])
CallButterfly ==
    /\ ~Done("forward_butterfly")
    /\ LET r == forward_butterfly(a_in[0], a_in[1], table[0])
       IN  Record("forward_butterfly", Res(TRUE, [p \in 0 .. 1 |-> r[p + 1]], <<>>))
    /\ UNCHANGED <<width, overflow_checks, n, tstatus, table, a_in, prime, poseidon, perm>>

CallForwardPass ==
    /\ ~Done("forward_pass")
    /\ Record("forward_pass", forward_pass(a_in, table, width))
    /\ UNCHANGED <<width, overflow_checks, n, tstatus, table, a_in, prime, poseidon, perm>>

CallSmallS1 ==
    /\ ~Done("forward_small_s1")
    /\ Record("forward_small_s1", forward_small_s1(a_in, table, width))
    /\ UNCHANGED <<width, overflow_checks, n, tstatus, table, a_in, prime, poseidon, perm>>

CallSmallS1Scalar ==
    /\ ~Done("_forward_small_s1")
    /\ Record("_forward_small_s1", Res(TRUE, _forward_small_s1(a_in, table), <<>>))
    /\ UNCHANGED <<width, overflow_checks, n, tstatus, table, a_in, prime, poseidon, perm>>

\* forward_small_s0 on the first half, then on the second, same roots
CallSmallS0Halves ==
    /\ ~Done("forward_small_s0 x2")
    /\ Record("forward_small_s0 x2",
              on_halves(Res(TRUE, a_in, <<>>),
                        LAMBDA h : forward_small_s0(h, table, width)))
    /\ UNCHANGED <<width, overflow_checks, n, tstatus, table, a_in, prime, poseidon, perm>>

\* the two word operations of the butterfly's second output, on the operands
\* x = a_in[0], y = a_in[1], w = table[0] of the field of `prime`:
\* t = MP::PRIME + x.value - y.value, then t as u64 * w.value as u64
CallPrimePlusDiff ==
    /\ tstatus = "operands"
    /\ ~Done("prime_plus_diff")
    /\ LET t == prime_plus_diff(prime, a_in[0], a_in[1])
       IN  Record("prime_plus_diff",
                  Res(TRUE, [p \in 0 .. 1 |-> IF p = 0 THEN t
                                              ELSE times_root(t, table[0])], <<>>))
    /\ UNCHANGED <<width, overflow_checks, n, tstatus, table, a_in, prime, poseidon, perm>>

----------------------------------------------------------------------------
(* Poseidon: the permutation of src/poseidon.  Its field elements are      *)
(* plain residues modulo PRIME; an array of WIDTH elements is a function   *)
(* on 0 .. WIDTH-1.                                                        *)

\* usize, scaled from 64 bits: sums and products of round counts wrap
\* modulo 2^USIZE_BITS where overflow is not checked
USIZE_BITS == 5

USIZE_R == 2 ^ USIZE_BITS

\* the const parameter ALPHA, the S-box exponent
ALPHA == 7

\* Poseidon::new.  With overflow checks a sum or product that leaves usize
\* panics; without them it wraps, and the assertion compares the wrapped
\* value.
Poseidon_new(WIDTH, half_num_full_rounds, num_partial_rounds, constants, checks) ==
    LET twice      == 2 * half_num_full_rounds
        sum        == (twice % USIZE_R) + num_partial_rounds
        num_rounds == sum % USIZE_R
        product    == WIDTH * num_rounds
    IN  IF checks /\ (twice >= USIZE_R \/ sum >= USIZE_R \/ product >= USIZE_R)
        THEN [status |-> "panic_overflow"]
        ELSE IF Len0(constants) # product % USIZE_R
        THEN [status |-> "panic_assert"]
        ELSE [status               |-> "built",
              WIDTH                |-> WIDTH,
              half_num_full_rounds |-> half_num_full_rounds,
              num_partial_rounds   |-> num_partial_rounds,
              constants            |-> constants]

\* constant_layer: state[i] += constants[round * WIDTH + i] for i = 0, 1, ...;
\* an index past the end of constants panics, the earlier elements already
\* added to.  reads = the indices asked for, in order, the failing one
\* included.  (round * WIDTH + i cannot leave usize before it is past the
\* end of constants, whose length is a usize.)
constant_layer(self, state, round) ==
    LET W    == self.WIDTH
        len  == Len0(self.constants)
        bad  == {i \in 0 .. (W - 1) : round * W + i >= len}
        cnt  == IF bad = {} THEN W ELSE CHOOSE i \in bad : \A j \in bad : i <= j
        asks == IF cnt < W THEN cnt + 1 ELSE W
    IN  [ok    |-> cnt = W,
         state |-> Arr([i \in 0 .. (W - 1) |->
                          IF i < cnt
                          THEN (state[i] + self.constants[round * W + i]) % PRIME
                          ELSE state[i]]),
         reads |-> [j \in 1 .. asks |-> round * W + (j - 1)] \o <<>>]

full_sbox_layer(state) == Arr([i \in DOMAIN state |-> ModExp(state[i], ALPHA)])

partial_sbox_layer(state) ==
    Arr([i \in DOMAIN state |-> IF i = 0 THEN ModExp(state[0], ALPHA) ELSE state[i]])

\* self.mds.permute_mut(state): a linear map of the state, here the matrix
\* with 2 on the diagonal and 1 elsewhere
mds_permute_mut(state) ==
    Arr([i \in DOMAIN state |-> (SumOf(state) + state[i]) % PRIME])

\* one iteration of the loop of half_full_rounds (full = TRUE) or of
\* partial_rounds, on the call in progress pm
round_step(self, pm, full) ==
    LET c == constant_layer(self, pm.state, pm.round_ctr) IN
    IF ~c.ok
    THEN [pm EXCEPT !.pc = "panicked", !.state = c.state, !.reads = @ \o c.reads]
    ELSE [pm EXCEPT
            !.state     = mds_permute_mut(IF full THEN full_sbox_layer(c.state)
                                          ELSE partial_sbox_layer(c.state)),
            !.reads     = @ \o c.reads,
            !.rounds    = Append(@, IF full THEN "full" ELSE "partial"),
            !.round_ctr = @ + 1,
            !.k         = @ + 1]

----------------------------------------------------------------------------
(* Spec: a table is built for the buffer's length, then the buffer is      *)
(* transformed with it.                                                    *)

\* seeds of the sample buffers: 0 .. MaxSeed
MaxSeed == 2

\* lengths tried with every width and seed, and the longer ones (through
\* both sides of SMALL_MAX) tried with one width and seed each
ShortLens == {1, 2, 4, 8, 16, 32, 64}

LongLens == {128, 256, 1024, 2048}

LongWidth(len) == CASE len = 128 -> 16 [] len = 256 -> 1 [] len = 1024 -> 4
                    [] OTHER -> 8

Init ==
    /\ FftOnly
    /\ tstatus = "none"
    /\ table = <<>>
    /\ out = <<>>
    /\ \/ /\ n \in ShortLens
          /\ overflow_checks \in BOOLEAN
          /\ width \in Widths
          /\ \E seed \in 0 .. MaxSeed : a_in = Sample(n, seed)
       \/ /\ n \in LongLens
          /\ overflow_checks = TRUE
          /\ width = LongWidth(n)
          /\ a_in = Sample(n, 0)

Next == BuildTable \/ CallForwardFft

Spec == Init /\ [][Next]_vars

----------------------------------------------------------------------------
(* SpecTable: roots_of_unity_table asked for any length *)

\* every length 0 .. TableMaxLen is asked for, and every power of two up to
\* one past the largest subgroup of the field
TableMaxLen == 40

RECURSIVE PowersOfTwo(_)
PowersOfTwo(lg) == IF lg < 0 THEN {} ELSE {2 ^ lg} \cup PowersOfTwo(lg - 1)

InitTable ==
    /\ FftOnly
    /\ overflow_checks \in BOOLEAN
    /\ width = 1
    /\ n \in (0 .. TableMaxLen) \cup PowersOfTwo(TWO_ADICITY + 1)
    /\ tstatus = "none"
    /\ table = <<>>
    /\ a_in = <<>>
    /\ out = <<>>

NextTable == BuildTable

SpecTable == InitTable /\ [][NextTable]_vars

----------------------------------------------------------------------------
(* SpecContract: forward_fft handed any buffer length with any table       *)
(* shape: a table as built for some length, or one with a level dropped,   *)
(* added, shortened or lengthened.                                         *)

\* levels 0 .. MaxBadLevel are the ones shortened or lengthened
MaxBadLevel == 2

ContractLens == {0, 1, 2, 3, 4, 6, 8, 16, 2048, 2050, 4096}

ContractTableLens == {2, 4, 8, 16, 32, 2048, 4096}

DropLast(t) == Slice(t, 0, Len0(t) - 1)

AddLevel(t) == Cat(t, [z \in 0 .. 0 |-> [y \in 0 .. 0 |-> one]])

Shorten(t, i) ==
    Arr([j \in DOMAIN t |-> IF j = i THEN Slice(t[j], 0, Len0(t[j]) - 1) ELSE t[j]])

Lengthen(t, i) ==
    Arr([j \in DOMAIN t |-> IF j = i THEN Cat(t[j], [y \in 0 .. 0 |-> one]) ELSE t[j]])

TableShapes(t) ==
    {t, AddLevel(t)}
        \cup (IF Len0(t) > 0 THEN {DropLast(t)} ELSE {})
        \cup {Shorten(t, i) : i \in 0 .. Min(MaxBadLevel, Len0(t) - 1)}
        \cup {Lengthen(t, i) : i \in 0 .. Min(MaxBadLevel, Len0(t) - 1)}

InitContract ==
    /\ FftOnly
    /\ n \in ContractTableLens
    /\ table \in TableShapes(roots_of_unity_table(n))
    /\ overflow_checks = TRUE
    /\ tstatus = "supplied"
    /\ out = <<>>
    /\ \E len \in ContractLens :
          /\ a_in = Sample(len, 1)
          /\ width \in (IF len > SMALL_MAX THEN {8} ELSE Widths)

NextContract == CallForwardFft

SpecContract == InitContract /\ [][NextContract]_vars

----------------------------------------------------------------------------
(* SpecButterfly: forward_butterfly on canonical x, y, w *)

\* the sampled residues besides the edge ones: Sample(ButterflySamples, 0)
ButterflySamples == 5

FieldSamples ==
    {0, 1, 2, one, PRIME - 1, PRIME - 2, (PRIME - 1) \div 2, (PRIME + 1) \div 2}
        \cup Range(Sample(ButterflySamples, 0))

InitButterfly ==
    /\ FftOnly
    /\ width = 1
    /\ overflow_checks = TRUE
    /\ n = 2
    /\ tstatus = "supplied"
    /\ out = <<>>
    /\ \E x \in FieldSamples, y \in FieldSamples, w \in FieldSamples :
          /\ a_in = Arr([p \in 0 .. 1 |-> IF p = 0 THEN x ELSE y])
          /\ table = Arr([p \in 0 .. 0 |-> w])

NextButterfly == CallButterfly

SpecButterfly == InitButterfly /\ [][NextButterfly]_vars

----------------------------------------------------------------------------
(* SpecKernels: the breadth-first path and the unrolled kernel, each on    *)
(* the same buffer with the table built for its length                     *)

KernelLens == {4, 8, 16, 32, 64, 128, 256}

InitKernels ==
    /\ FftOnly
    /\ n \in KernelLens
    /\ width \in Widths
    /\ overflow_checks = TRUE
    /\ tstatus = "none"
    /\ table = <<>>
    /\ out = <<>>
    /\ \E seed \in 0 .. MaxSeed : a_in = Sample(n, seed)

NextKernels == BuildTable \/ CallForwardSmall \/ CallKernel

SpecKernels == InitKernels /\ [][NextKernels]_vars

----------------------------------------------------------------------------
(* SpecPass: forward_pass on a buffer of even length with any roots *)

PassLens == {2, 4, 6, 8, 12, 16, 32}

\* roots as sampled, or with the 1 that every built level starts with
PassRoots(len, seed) ==
    LET r == Sample(len, seed)
    IN  {r, Arr([k \in DOMAIN r |-> IF k = 0 THEN one ELSE r[k]])}

InitPass ==
    /\ FftOnly
    /\ n \in PassLens
    /\ width \in Widths
    /\ overflow_checks = TRUE
    /\ tstatus = "supplied"
    /\ out = <<>>
    /\ \E seed \in 0 .. MaxSeed :
          /\ a_in = Sample(n, seed)
          /\ table \in PassRoots(n \div 2, seed + 1)

NextPass == CallForwardPass

SpecPass == InitPass /\ [][NextPass]_vars

----------------------------------------------------------------------------
(* SpecS1: the fused stage 1, its scalar reference, and stage 0 on each    *)
(* half, on the same buffer and roots                                      *)

S1Lens == {4, 8, 16, 32, 64}

InitS1 ==
    /\ FftOnly
    /\ n \in S1Lens
    /\ width \in {w \in Widths : (n \div 4) % w = 0}
    /\ overflow_checks = TRUE
    /\ tstatus = "supplied"
    /\ out = <<>>
    /\ \E seed \in 0 .. MaxSeed :
          /\ a_in = Sample(n, seed)
          /\ table = Sample(n \div 4, seed + 1)

NextS1 == CallSmallS1 \/ CallSmallS1Scalar \/ CallSmallS0Halves

SpecS1 == InitS1 /\ [][NextS1]_vars

----------------------------------------------------------------------------
(* SpecWord: the word arithmetic of the butterfly, on canonical operands   *)
(* of fields of several primes, and on the operands that forward_small    *)
(* and forward_4 meet in the field of PRIME                                *)

\* every prime up to MaxSmallPrime is tried, besides PRIME and the largest
\* prime that leaves the word's top bit free
MaxSmallPrime == 13

IsPrime(p) == p > 1 /\ \A d \in 2 .. (p - 1) : d * d > p \/ p % d # 0

LargestPrime ==
    CHOOSE p \in (MONTY_R \div 2 - 64) .. (MONTY_R \div 2 - 1) :
        /\ IsPrime(p)
        /\ \A q \in (p + 1) .. (MONTY_R \div 2 - 1) : ~IsPrime(q)

WordPrimes == {p \in 2 .. MaxSmallPrime : IsPrime(p)} \cup {PRIME, LargestPrime}

\* canonical residues of the field of P: both ends and the middle
WordSamples(P) == {0, 1, P \div 2, P - 2, P - 1} \cap (0 .. (P - 1))

WordLens == {4, 8, 16, 32}

InitWord ==
    /\ poseidon = NoPoseidon
    /\ perm = NoPermute
    /\ overflow_checks = TRUE
    /\ out = <<>>
    /\ \/ /\ prime \in WordPrimes
          /\ tstatus = "operands"
          /\ n = 2
          /\ width = 1
          /\ \E x \in WordSamples(prime), y \in WordSamples(prime),
                w \in WordSamples(prime) :
                /\ a_in = Arr([p \in 0 .. 1 |-> IF p = 0 THEN x ELSE y])
                /\ table = Arr([p \in 0 .. 0 |-> w])
       \/ /\ prime = PRIME
          /\ tstatus = "none"
          /\ table = <<>>
          /\ n \in WordLens
          /\ width \in Widths
          /\ \E seed \in 0 .. MaxSeed : a_in = Sample(n, seed)

NextWord == CallPrimePlusDiff \/ BuildTable \/ CallForwardSmall \/ CallKernel

SpecWord == InitWord /\ [][NextWord]_vars

----------------------------------------------------------------------------
(* SpecPoseidon: an instance is asked for with any round counts, width and *)
(* number of constants, and one permute_mut call runs on it round by round *)

\* half_num_full_rounds is 0 .. MaxHalf or half the range of usize;
\* num_partial_rounds is 0 .. MaxPartial; constants has 0 .. MaxConstants
\* elements
MaxHalf == 2

MaxPartial == 3

MaxConstants == 24

HalfRounds == (0 .. MaxHalf) \cup {USIZE_R \div 2}

PoseidonWidths == {1, 2, 3, 8}

PoseidonConstants(len) ==
    Arr([k \in 0 .. (len - 1) |-> (k * k * 31 + k * 17 + 5) % PRIME])

PoseidonNew ==
    /\ poseidon.status = "none"
    /\ \E h \in HalfRounds, p \in 0 .. MaxPartial, W \in PoseidonWidths,
          len \in 0 .. MaxConstants :
          poseidon' = Poseidon_new(W, h, p, PoseidonConstants(len), overflow_checks)
    /\ UNCHANGED <<width, overflow_checks, n, tstatus, table, a_in, out, prime, perm>>

\* permute_mut is entered: round_ctr = 0, and half_full_rounds begins
PermuteMut ==
    /\ poseidon.status = "built"
    /\ perm.pc = "idle"
    /\ perm' = [pc        |-> "first_full",
                k         |-> 0,
                round_ctr |-> 0,
                state     |-> Arr([i \in 0 .. (poseidon.WIDTH - 1) |-> i]),
                reads     |-> <<>>,
                rounds    |-> <<>>]
    /\ UNCHANGED <<width, overflow_checks, n, tstatus, table, a_in, out, prime, poseidon>>

FullRound ==
    /\ perm.pc \in {"first_full", "second_full"}
    /\ perm.k < poseidon.half_num_full_rounds
    /\ perm' = round_step(poseidon, perm, TRUE)
    /\ UNCHANGED <<width, overflow_checks, n, tstatus, table, a_in, out, prime, poseidon>>

PartialRound ==
    /\ perm.pc = "partial"
    /\ perm.k < poseidon.num_partial_rounds
    /\ perm' = round_step(poseidon, perm, FALSE)
    /\ UNCHANGED <<width, overflow_checks, n, tstatus, table, a_in, out, prime, poseidon>>

\* a loop has run its count: half_full_rounds or partial_rounds returns and
\* permute_mut goes on to its next call, or returns
LoopReturn ==
    /\ \/ /\ perm.pc = "first_full"
          /\ perm.k = poseidon.half_num_full_rounds
          /\ perm' = [perm EXCEPT !.pc = "partial", !.k = 0]
       \/ /\ perm.pc = "partial"
          /\ perm.k = poseidon.num_partial_rounds
          /\ perm' = [perm EXCEPT !.pc = "second_full", !.k = 0]
       \/ /\ perm.pc = "second_full"
          /\ perm.k = poseidon.half_num_full_rounds
          /\ perm' = [perm EXCEPT !.pc = "done"]
    /\ UNCHANGED <<width, overflow_checks, n, tstatus, table, a_in, out, prime, poseidon>>

InitPoseidon ==
    /\ width = 1
    /\ overflow_checks \in BOOLEAN
    /\ n = 0
    /\ tstatus = "none"
    /\ table = <<>>
    /\ a_in = <<>>
    /\ out = <<>>
    /\ prime = PRIME
    /\ poseidon = NoPoseidon
    /\ perm = NoPermute

NextPoseidon == PoseidonNew \/ PermuteMut \/ FullRound \/ PartialRound \/ LoopReturn

SpecPoseidon == InitPoseidon /\ [][NextPoseidon]_vars

----------------------------------------------------------------------------
(* Claims *)

Fft == out["forward_fft"]

Plain(a) == [i \in DOMAIN a |-> from_monty(a[i])]

\* C1: for a power-of-two length n >= 2 the field has a subgroup for, and a
\* buffer of n canonical elements, forward_fft with roots_of_unity_table(n)
\* returns and leaves buf[i] = sum_j a_j * g^(j * bitrev(i)), on the paths
\* n = 2, 2 < n <= 1024 and n > 1024 alike.
C1_DftBitReversed ==
    /\ (tstatus # "none" /\ n >= 2 /\ IsPow2(n) /\ log2_strict_usize(n) <= TWO_ADICITY)
          => tstatus = "built"
    /\ (Done("forward_fft") /\ tstatus = "built" /\ n >= 2 /\ Len0(a_in) = n)
          => /\ Fft.ok
             /\ Plain(Fft.a) = dft_bitrev(a_in, n)

C1_Witness ==
    /\ Done("forward_fft") /\ tstatus = "built" /\ n > SMALL_MAX /\ Len0(a_in) = n
    /\ Fft.ok /\ Fft.a # a_in

\* C2: for n = 1, roots_of_unity_table(1) returns a table, and forward_fft
\* with it returns and leaves the one-element buffer as it was.
C2_LengthOne ==
    n = 1 =>
        /\ tstatus \in {"none", "built"}
        /\ Done("forward_fft") => (Fft.ok /\ Fft.a = a_in)

\* C3: a call with n = len(buf) >= 2 and n # 2^(len(table)+1) panics, on the
\* breadth-first path as on the others; a table with more levels than
\* log2(n) - 1 is never accepted.
C3_LevelCountEnforced ==
    (Done("forward_fft") /\ Len0(a_in) >= 2 /\ Len0(a_in) # 2 ^ (Len0(table) + 1))
        => ~Fft.ok

\* C4 as claimed: whenever forward_fft panics on a violated precondition
\* (length not a power of two, wrong number of levels, a level of the wrong
\* length), the buffer is still as it was at the call.  Stated for the
\* tables that have the right number of levels, where only a level's
\* length can be what is violated.
C4_AbortBeforeAnyWrite ==
    (Done("forward_fft") /\ ~Fft.ok /\ Len0(a_in) = 2 ^ (Len0(table) + 1))
        => Fft.a = a_in

\* the violations checked before the first write: a length that is no power
\* of two; a wrong number of levels for n = 2 or n > 1024 (line 355); a
\* missing level 0, or a level 0 whose length is not n/2
CheckedFirst ==
    LET len == Len0(a_in) IN
    \/ ~IsPow2(len)
    \/ (len = 2 \/ len > SMALL_MAX) /\ len # 2 ^ (Len0(table) + 1)
    \/ Len0(table) = 0
    \/ Len0(table[0]) # len \div 2

\* C4 as amended: a panic on one of the violations checked first leaves the
\* buffer as it was at the call (a panic on a later level may not).
C4_EarlyAbortWritesNothing ==
    (Done("forward_fft") /\ ~Fft.ok /\ CheckedFirst) => Fft.a = a_in

C4_Witness ==
    /\ Done("forward_fft") /\ ~Fft.ok /\ Fft.a = a_in
    /\ Len0(a_in) = 8 /\ Len0(table) = 2 /\ Len0(table[0]) # 4

\* C5: for n = 2^L, L >= 1, roots_of_unity_table(n) returns L - 1 levels;
\* level i has n/2^(i+1) entries and its entry k is g^(k * 2^i), g the
\* generator of the subgroup of order n.
C5_TableLevels ==
    LET L == log2_strict_usize(n)
        g == ModExp(TWO_ADIC_GENERATOR, 2 ^ (TWO_ADICITY - L))
    IN  (tstatus # "none" /\ L >= 1 /\ L <= TWO_ADICITY) =>
            /\ tstatus = "built"
            /\ Len0(table) = L - 1
            /\ \A i \in 0 .. (L - 2) :
                  /\ Len0(table[i]) = n \div (2 ^ (i + 1))
                  /\ \A k \in DOMAIN table[i] :
                        from_monty(table[i][k]) = ModExp(g, k * (2 ^ i))

C5_Witness ==
    /\ tstatus = "built" /\ n = 2 ^ TWO_ADICITY
    /\ Len0(table) = TWO_ADICITY - 1
    /\ Len0(table[TWO_ADICITY - 2]) = 2

\* C6: for n = 2^L, L >= 2, every entry e of level i has e^(n/2^i) = 1, and
\* no two entries of one level add up to 0.
C6_RootsAndNoNegatives ==
    LET L == log2_strict_usize(n)
    IN  (tstatus = "built" /\ L >= 2) =>
            \A i \in DOMAIN table :
                LET es == Range(table[i]) IN
                \A e \in es :
                    /\ ModExp(from_monty(e), n \div (2 ^ i)) = 1
                    /\ Sub(0, e) \notin es

C6_Witness ==
    /\ tstatus = "built" /\ n = 2 ^ TWO_ADICITY
    /\ \E k \in DOMAIN table[0] : from_monty(table[0][k]) = TWO_ADIC_GENERATOR

\* C7: for canonical x, y, w forward_butterfly returns (x + y, (x - y) * w),
\* both canonical; (x, x, w) gives (2x, 0) and (x, 0, w) gives (x, x * w).
C7_Butterfly ==
    Done("forward_butterfly") =>
        LET x  == a_in[0]
            y  == a_in[1]
            w  == table[0]
            r  == out["forward_butterfly"].a
            px == from_monty(x)
            py == from_monty(y)
            pw == from_monty(w)
        IN  /\ r[0] \in 0 .. (PRIME - 1)
            /\ r[1] \in 0 .. (PRIME - 1)
            /\ from_monty(r[0]) = (px + py) % PRIME
            /\ from_monty(r[1]) = ((PRIME + px - py) * pw) % PRIME
            /\ x = y => (from_monty(r[0]) = (2 * px) % PRIME /\ r[1] = 0)
            /\ y = 0 => (r[0] = x /\ from_monty(r[1]) = (px * pw) % PRIME)

C7_Witness ==
    /\ Done("forward_butterfly")
    /\ a_in[0] < a_in[1] /\ a_in[1] = PRIME - 1
    /\ table[0] \notin {0, one}
    /\ out["forward_butterfly"].a[1] # 0

\* C8: for n in {4, ..., 256} forward_small with roots_of_unity_table(n) and
\* the unrolled kernel forward_n with the same table leave the same buffer.
C8_SmallEqualsUnrolled ==
    /\ Done("forward_small") => out["forward_small"].ok
    /\ Done("forward_n") => out["forward_n"].ok
    /\ (Done("forward_small") /\ Done("forward_n"))
          => out["forward_small"].a = out["forward_n"].a

C8_Witness ==
    /\ Done("forward_small") /\ Done("forward_n") /\ n = 256 /\ width = 16
    /\ out["forward_n"].ok /\ out["forward_n"].a # a_in

Pass == out["forward_pass"]

Butterflied(k) ==
    LET half == Len0(a_in) \div 2
    IN  <<Pass.a[k], Pass.a[k + half]>>
            = forward_butterfly(a_in[k], a_in[k + half], table[k])

\* C9 as claimed: forward_pass leaves (top[k], tail[k]) = butterfly(top[k],
\* tail[k], roots[k]) for every k in 0 .. n/2, k = 0 included, whichever of
\* the packed and the scalar path ran (read for the lengths whose halves
\* the lanes can hold: n/2 below the lane width or a multiple of it).
C9_EveryPairButterflied ==
    LET half == Len0(a_in) \div 2 IN
    (Done("forward_pass") /\ (half < width \/ half % width = 0)) =>
        /\ Pass.ok
        /\ \A k \in 0 .. (half - 1) : Butterflied(k)

\* C9 as amended: with n/2 below the lane width or a multiple of it, every
\* pair k >= 1 is butterflied with roots[k] on both paths; pair 0 is on the
\* packed path, while the scalar path leaves (top[0] + tail[0],
\* top[0] - tail[0]), which is the butterfly exactly when roots[0] = 1.
C9_PairsButterfliedRootZeroOne ==
    LET half == Len0(a_in) \div 2 IN
    (Done("forward_pass") /\ (half < width \/ half % width = 0)) =>
        /\ Pass.ok
        /\ \A k \in 1 .. (half - 1) : Butterflied(k)
        /\ half >= width => Butterflied(0)
        /\ half < width =>
              /\ Pass.a[0] = Add(a_in[0], a_in[half])
              /\ Pass.a[half] = Sub(a_in[0], a_in[half])
              /\ (table[0] = one => Butterflied(0))

C9_Witness ==
    /\ Done("forward_pass") /\ Pass.ok
    /\ Len0(a_in) = 16 /\ width = 16
    /\ table[0] = one
    /\ Butterflied(0) /\ Butterflied(7)

\* C10: with n/4 a multiple of the lane width and n/4 roots, forward_small_s1
\* leaves what the single-split stage leaves when applied to the first half
\* and to the second half with the same roots, and what _forward_small_s1
\* leaves.
C10_FusedStageOne ==
    /\ Done("forward_small_s1") => out["forward_small_s1"].ok
    /\ (Done("forward_small_s1") /\ Done("forward_small_s0 x2")) =>
          /\ out["forward_small_s0 x2"].ok
          /\ out["forward_small_s1"].a = out["forward_small_s0 x2"].a
    /\ (Done("forward_small_s1") /\ Done("_forward_small_s1")) =>
          out["forward_small_s1"].a = out["_forward_small_s1"].a

C10_Witness ==
    /\ Done("forward_small_s1") /\ Done("forward_small_s0 x2") /\ Done("_forward_small_s1")
    /\ n = 64 /\ width = 16
    /\ out["forward_small_s1"].a # a_in

\* the block sizes of the stages that position p took part in, in the order
\* the stages ran
StagesAt(tr, p) ==
    LET st == SelectSeq(tr, LAMBDA e : Len(e) = 4 /\ e[2] <= p /\ p < e[2] + e[3])
    IN  [j \in 1 .. Len(st) |-> st[j][4]] \o <<>>

\* <<len, len/2, ..., 2>>
HalvingFrom(len) ==
    [j \in 1 .. log2_strict_usize(len) |-> len \div (2 ^ (j - 1))] \o <<>>

\* C11: for n = 2^L, L >= 1, forward_fft with roots_of_unity_table(n)
\* returns, and every buffer position has taken part in exactly L butterfly
\* stages, of block sizes n, n/2, ..., 2 in that order (the forward_pass
\* stages above 1024 and the breadth-first stages, or for n = 2 the one
\* add/subtract stage).
C11_ExactlyLStages ==
    (Done("forward_fft") /\ tstatus = "built" /\ n >= 2 /\ Len0(a_in) = n) =>
        /\ Fft.ok
        /\ \A p \in 0 .. (n - 1) : StagesAt(Fft.tr, p) = HalvingFrom(n)

C11_Witness ==
    /\ Done("forward_fft") /\ tstatus = "built" /\ n > SMALL_MAX /\ Fft.ok
    /\ Len(StagesAt(Fft.tr, n - 1)) = log2_strict_usize(n)
    /\ \E j \in DOMAIN Fft.tr :
          Fft.tr[j] = <<"stage", n \div 2, n \div 2, 2>>

\* the word operations on (x, y, w) in the field of P: neither step of
\* P + x - y leaves the word, t is in 1 .. 2P - 1, and t * w neither leaves
\* the double word nor reaches 2^MONTY_BITS * P
WordOk(P, x, y, w) ==
    LET t == prime_plus_diff(P, x, y) IN
    /\ P + x <= MONTY_MASK
    /\ P + x - y >= 0
    /\ t = P + x - y
    /\ 1 <= t /\ t <= 2 * P - 1
    /\ t * w < MONTY_R * MONTY_R
    /\ times_root(t, w) = t * w
    /\ times_root(t, w) < MONTY_R * P

Canonical(P, v) == v \in 0 .. (P - 1)

\* the buffer as iteration lg_m = j of forward_small's loop finds it
RECURSIVE StageInput(_)
StageInput(j) ==
    IF j >= log2_strict_usize(Len0(a_in)) - 1 THEN a_in
    ELSE small_stage(StageInput(j + 1), table, width,
                     log2_strict_usize(Len0(a_in)), j + 1).a

\* whether iteration lg_m = j runs the scalar loops (lines 187-198)
ScalarIteration(j) ==
    LET len == Len0(a_in)
        s   == log2_strict_usize(len) - j - 1
    IN  ~(s = 0 /\ width <= len \div 2) /\ ~(s = 1 /\ width <= len \div 4)

\* the (x, y, w) that the scalar loops of iteration lg_m = j multiply out
StageOperands(j) ==
    LET b     == StageInput(j)
        m     == 2 ^ j
        s     == log2_strict_usize(Len0(a_in)) - j - 1
        roots == IF j # 0 THEN table[s] ELSE [z \in 0 .. 0 |-> one]
    IN  {<<b[q - m], b[q], roots[(q % (2 * m)) - m]>> :
            q \in {q \in DOMAIN b : q % (2 * m) >= m}}

OperandsOk(ops) ==
    \A o \in ops :
        /\ Canonical(PRIME, o[1]) /\ Canonical(PRIME, o[2]) /\ Canonical(PRIME, o[3])
        /\ WordOk(PRIME, o[1], o[2], o[3])

\* C12: for a prime P below half the word and canonical x, y, w, the
\* intermediate t = P + x - y never wraps and is in 1 .. 2P - 1, and t * w
\* never wraps in the double word and is below 2^MONTY_BITS * P; and the
\* operands are canonical, so this holds, at every use: in the butterfly, in
\* the scalar loops of every iteration of forward_small, in forward_4, and
\* in the scalar reference stages applied to the buffer.
C12_IntermediateNeverWraps ==
    /\ Done("prime_plus_diff") =>
          /\ WordOk(prime, a_in[0], a_in[1], table[0])
          /\ out["prime_plus_diff"].a[0] = prime + a_in[0] - a_in[1]
          /\ out["prime_plus_diff"].a[1] = (prime + a_in[0] - a_in[1]) * table[0]
          /\ prime = PRIME =>
                out["prime_plus_diff"].a[0] = butterfly_t(a_in[0], a_in[1])
    /\ (Done("forward_small") /\ tstatus = "built") =>
          /\ out["forward_small"].ok
          /\ \A j \in 0 .. (log2_strict_usize(n) - 1) :
                ScalarIteration(j) => OperandsOk(StageOperands(j))
          /\ \A q \in DOMAIN a_in : Canonical(PRIME, out["forward_small"].a[q])
    /\ (Done("forward_n") /\ tstatus = "built" /\ n = 4) =>
          OperandsOk({<<a_in[1], a_in[3], ROOTS_8[2]>>})
    /\ tstatus = "built" =>
          /\ OperandsOk({<<a_in[k], a_in[k + n \div 2], table[0][k]>> :
                            k \in 0 .. (n \div 2 - 1)})
          /\ n >= 8 =>
                OperandsOk({<<a_in[h + k], a_in[h + k + n \div 4], table[1][k]>> :
                               k \in 0 .. (n \div 4 - 1), h \in {0, n \div 2}})

C12_Witness ==
    /\ Done("prime_plus_diff")
    /\ prime = LargestPrime
    /\ a_in[0] = prime - 1 /\ a_in[1] = 0 /\ table[0] = prime - 1
    /\ out["prime_plus_diff"].a[0] = 2 * prime - 1

\* the functions entered during the call, in order, without the stages
Calls == SelectSeq(Fft.tr, LAMBDA e : e[1] # "stage")

Dropped(lv) == IF lv = <<>> THEN <<>> ELSE Tail(lv)

\* the functions a call on a slice of length len with a table of level
\* lengths lv enters when nothing panics: forward_small for 3 .. 1024,
\* forward_2 for 2, and above 1024 one forward_pass and forward_fft on each
\* half with the first level dropped
RECURSIVE Dispatch(_, _)
Dispatch(len, lv) ==
    LET fft == << <<"forward_fft", len, lv>> >> IN
    IF len > 2 /\ len <= SMALL_MAX THEN fft \o << <<"forward_small", len>> >>
    ELSE IF len = 2 THEN fft \o << <<"forward_2", 2>> >>
    ELSE IF len > SMALL_MAX
         THEN fft \o << <<"forward_pass", len>> >>
                  \o Dispatch(len \div 2, Dropped(lv))
                  \o Dispatch(len \div 2, Dropped(lv))
         ELSE fft

IsPrefix(p, q) == Len(p) <= Len(q) /\ p = SubSeq(q, 1, Len(p))

UnrolledAbove2 ==
    {"forward_4", "forward_8", "forward_16", "forward_32", "forward_64",
     "forward_128", "forward_256"}

\* C13: in every execution of forward_fft, whatever the buffer and the
\* table, none of forward_4 .. forward_256 is entered; forward_2 is entered
\* only by the top-level call, on a buffer of length 2; every call on a
\* length in 4 .. 1024 enters forward_small; every call on a length above
\* 1024 enters forward_pass once and then forward_fft on each half with the
\* table's first level dropped.  An execution that panics stops where it
\* panics; one that returns has entered exactly these.
C13_UnrolledKernelsNeverReached ==
    Done("forward_fft") =>
        /\ \A j \in DOMAIN Calls : Calls[j][1] \notin UnrolledAbove2
        /\ \A j \in DOMAIN Calls :
              Calls[j][1] = "forward_2" => (j = 2 /\ Len0(a_in) = 2)
        /\ \A j \in DOMAIN Calls :
              (Calls[j][1] = "forward_fft" /\ Calls[j][2] \in 4 .. SMALL_MAX)
                  => (j < Len(Calls) /\ Calls[j + 1] = <<"forward_small", Calls[j][2]>>)
        /\ IsPrefix(Calls, Dispatch(Len0(a_in), level_lens(table)))
        /\ Fft.ok => Calls = Dispatch(Len0(a_in), level_lens(table))

C13_Witness ==
    /\ Done("forward_fft") /\ Fft.ok /\ Len0(a_in) = 4 * SMALL_MAX
    /\ Len(Calls) = 14
    /\ Calls[3] = <<"forward_fft", 2 * SMALL_MAX, Tail(level_lens(table))>>
    /\ Calls[5] = <<"forward_fft", SMALL_MAX, Tail(Tail(level_lens(table)))>>
    /\ Calls[6] = <<"forward_small", SMALL_MAX>>

\* h full rounds, p partial rounds, h full rounds
ExpectedRounds(h, p) ==
    [j \in 1 .. (2 * h + p) |-> IF j > h /\ j <= h + p THEN "partial" ELSE "full"] \o <<>>

\* what the claim says of an instance and of a permute_mut call on it, as
\* far as the call has got
RoundsAndConstantsInOrder ==
    LET h == poseidon.half_num_full_rounds
        p == poseidon.num_partial_rounds
        W == poseidon.WIDTH
    IN  /\ Len0(poseidon.constants) = W * (2 * h + p)
        /\ perm.pc # "idle" =>
              /\ perm.pc # "panicked"
              /\ perm.round_ctr = Len(perm.rounds)
              /\ IsPrefix(perm.rounds, ExpectedRounds(h, p))
              /\ Len(perm.reads) = perm.round_ctr * W
              /\ \A j \in DOMAIN perm.reads :
                    /\ perm.reads[j] = j - 1
                    /\ perm.reads[j] < Len0(poseidon.constants)
              /\ perm.pc = "done" =>
                    /\ perm.rounds = ExpectedRounds(h, p)
                    /\ perm.round_ctr = 2 * h + p
                    /\ Len(perm.reads) = Len0(poseidon.constants)

\* C14: every instance that Poseidon::new returns has WIDTH * (2 *
\* half_num_full_rounds + num_partial_rounds) constants, and permute_mut on
\* it runs half_num_full_rounds full rounds, num_partial_rounds partial
\* rounds and half_num_full_rounds full rounds in that order, the round
\* counter going up by one per round from 0 to their total, round r reading
\* constants[r * WIDTH + i] for i = 0 .. WIDTH-1: every index read is in
\* range and every constant is read once, in index order.
C14_RoundsAndConstantsInOrder ==
    poseidon.status = "built" => RoundsAndConstantsInOrder

\* the same where no sum or product of Poseidon::new leaves usize
C14_HoldsWithoutOverflow ==
    (/\ poseidon.status = "built"
     /\ poseidon.WIDTH * (2 * poseidon.half_num_full_rounds
                            + poseidon.num_partial_rounds) < USIZE_R)
        => RoundsAndConstantsInOrder

C14_Witness ==
    /\ poseidon.status = "built" /\ perm.pc = "done"
    /\ poseidon.half_num_full_rounds = 2 /\ poseidon.num_partial_rounds = 3
    /\ poseidon.WIDTH = 3
    /\ perm.rounds = <<"full", "full", "partial", "partial", "partial", "full", "full">>
    /\ Len(perm.reads) = 21 /\ perm.reads[21] = 20

====
